---- MODULE Spec2Model ----
(***************************************************************************)
(* A model of rbuf's RingBuf (src/src/ring.rs) and of its iterators        *)
(* RingIter / RingIterMut (src/src/iter.rs).                               *)
(*                                                                         *)
(* Sequences are 1-based in TLA+, slices 0-based in Rust: physical slot k  *)
(* of `data` is data[k + 1].  usize is modelled as a WordBits wide         *)
(* unsigned integer.                                                       *)
(***************************************************************************)
EXTENDS Integers, Sequences, FiniteSets, TLC

\* ------------------------------------------------------------------ bounds
\* Longest backing storage that is explored.
MaxLen == 3
\* Elements are the integers 0..MaxVal; 0 is T::default().
MaxVal == 1
\* Width of usize in the model, in bits.
WordBits == 4

WordMod == 2 ^ WordBits
UsizeMax == WordMod - 1
Usize == 0 .. UsizeMax
\* The indices the index operations are called with: the in-range ones, the
\* first that wraps, and the largest usize values.
Indices(n) == (0 .. n) \cup {UsizeMax - 1, UsizeMax}
Val == 0 .. MaxVal
Default == 0

\* Vec<T> values handed to the constructors, the empty one included.
Vecs == UNION { [1 .. n -> Val] : n \in 0 .. MaxLen }

NoBuf == [data |-> << >>, front |-> 0]
IterKinds == {"iter", "iter_mut"}
NoIter == [kind |-> "none", next |-> 0, next_back |-> 0]
NoLast == [op |-> "new", arg |-> 0, idx |-> 0, ret |-> 0, pre |-> NoBuf]

VARIABLES
  data,       \* RingBuf::data, the backing storage
  front,      \* RingBuf::front, the physical index of the front element
  debug,      \* cfg(debug_assertions) of the build (overflow checks on)
  zst,        \* size_of::<T>() == 0: T has the single value Default
  panic,      \* "none", or the panic that ended the program
  last,       \* the last RingBuf operation: its name, inputs, result and
              \* pre-state (once an iterator borrows the buffer: whether
              \* it was a push, and the buffer as it was borrowed)
  deq,        \* a reference deque run side by side with the buffer
  it,         \* the live iterator: kind and its two cursors
  fwd,        \* the elements next() yielded so far, in order
  bwd,        \* the elements next_back() yielded so far, in order
  slots,      \* the physical slots handed out so far, in order
  call,       \* the last iterator call and whether it returned Some
  hist,       \* the operation before `last`, where a specification tracks it
  run,        \* the current run of pushes at one end, where a specification
              \* tracks it: the end, how many, the values, the cursor before
  ldata,      \* lib.rs RingBuf::data
  lnext,      \* lib.rs RingBuf::next, the slot the next push_front writes
  llast,      \* the last operation on the lib.rs RingBuf
  lit,        \* the live lib.rs RingIter: its two cursors
  lfwd,       \* the elements its next() yielded so far, in order
  lbwd        \* the elements its next_back() yielded so far, in order

bufvars == <<data, front>>
itvars == <<it, fwd, bwd, slots, call>>
libvars == <<ldata, lnext, llast, lit, lfwd, lbwd>>
ringvars ==
  <<data, front, zst, last, deq, it, fwd, bwd, slots, call, hist, run>>
vars == <<data, front, debug, zst, panic, last, deq, it, fwd, bwd, slots, call,
          hist, run, ldata, lnext, llast, lit, lfwd, lbwd>>

NoCall == [fn |-> "new", some |-> FALSE]
NoRun == [op |-> "none", n |-> 0, vals |-> << >>, front0 |-> 0]

\* The buffer as a value.
Buf == [data |-> data, front |-> front]

\* ------------------------------------------------------- usize arithmetic
\* a + b on usize: the wrapped sum and whether it overflowed.
usize_add(a, b) == [sum |-> (a + b) % WordMod, overflow |-> a + b > UsizeMax]

\* ------------------------------------------------------------- RingBuf
len(b) == Len(b.data)

front_idx(b) == b.front

\* self.front.checked_sub(1).unwrap_or(self.len() - 1)
back_idx_wrong(b) == IF b.front >= 1 THEN b.front - 1 ELSE 0
back_idx(b) == IF b.front >= 1 THEN b.front - 1 ELSE len(b) - 1

\* From<Box<[T]>>::from: assert!(!other.is_empty()), then front = 0.
from_box_noassert(other) ==
  [panic |-> "none", buf |-> [data |-> other, front |-> 0]]
from_box_wrongfront(other) ==
  IF Len(other) = 0
  THEN [panic |-> "empty", buf |-> NoBuf]
  ELSE [panic |-> "none", buf |-> [data |-> other, front |-> Len(other) - 1]]
from_box(other) ==
  IF Len(other) = 0
  THEN [panic |-> "empty", buf |-> NoBuf]
  ELSE [panic |-> "none", buf |-> [data |-> other, front |-> 0]]

from_vec(vec) == from_box(vec)

\* Vec::resize_with(len, Default::default), then from_vec.
new(n) == from_vec([k \in 1 .. n |-> Default])

front_of(b) == b.data[front_idx(b) + 1]
back_of(b) == b.data[back_idx(b) + 1]

\* #[derive(PartialEq, Eq)] on RingBuf: the fields are compared, `data`
\* as slices (same length, equal element by element) and `front`.
eq(a, b) == a.data = b.data /\ a.front = b.front

\* *buf.front_mut() = elem and *buf.back_mut() = elem: the slot at
\* front_idx() / back_idx() is assigned.
front_mut(b, elem) ==
  [data |-> [b.data EXCEPT ![front_idx(b) + 1] = elem], front |-> b.front]
back_mut(b, elem) ==
  [data |-> [b.data EXCEPT ![back_idx(b) + 1] = elem], front |-> b.front]

push_front_noadvance(b, elem) ==
  [data |-> [b.data EXCEPT ![back_idx(b) + 1] = elem], front |-> b.front]
push_front(b, elem) ==
  LET idx == back_idx(b)
  IN  [data |-> [b.data EXCEPT ![idx + 1] = elem], front |-> idx]

push_back_noadvance(b, elem) ==
  [data |-> [b.data EXCEPT ![front_idx(b) + 1] = elem], front |-> b.front]
push_back_nowrap(b, elem) ==
  [data |-> [b.data EXCEPT ![front_idx(b) + 1] = elem], front |-> b.front + 1]
push_back(b, elem) ==
  LET idx == front_idx(b)
  IN  [data |-> [b.data EXCEPT ![idx + 1] = elem],
       front |-> (b.front + 1) % len(b)]

\* take() leaves T::default() in the slot and returns what was there.
pop_front_notake(b) ==
  [buf |-> [data |-> b.data, front |-> (front_idx(b) + 1) % len(b)],
   ret |-> b.data[front_idx(b) + 1]]
pop_front(b) ==
  LET idx == front_idx(b)
  IN  [buf |-> [data |-> [b.data EXCEPT ![idx + 1] = Default],
                front |-> (idx + 1) % len(b)],
       ret |-> b.data[idx + 1]]

pop_back_notake(b) ==
  [buf |-> [data |-> b.data, front |-> back_idx(b)],
   ret |-> b.data[back_idx(b) + 1]]
pop_back(b) ==
  LET idx == back_idx(b)
  IN  [buf |-> [data |-> [b.data EXCEPT ![idx + 1] = Default],
                front |-> idx],
       ret |-> b.data[idx + 1]]

rotate_left_right(s, mid) ==
  [k \in 1 .. Len(s) |-> s[((k - 1 + Len(s) - mid) % Len(s)) + 1]]
\* <[T]>::rotate_left(mid): the first mid elements move to the end.
rotate_left(s, mid) ==
  [k \in 1 .. Len(s) |-> s[((k - 1 + mid) % Len(s)) + 1]]

make_contiguous(b) == [data |-> rotate_left(b.data, b.front), front |-> 0]

\* into_boxed_slice: make_contiguous(), then the storage is given away.
into_boxed_slice(b) == make_contiguous(b).data

\* Index::index / IndexMut::index_mut: (self.front_idx() + idx) % self.len().
\* The addition is a usize addition: with overflow checks it panics on
\* overflow, without them it wraps.
index_nofront(b, idx, dbg) == [panic |-> FALSE, slot |-> idx % len(b)]
index(b, idx, dbg) ==
  LET s == usize_add(front_idx(b), idx)
  IN  IF s.overflow /\ dbg
      THEN [panic |-> TRUE, slot |-> 0]
      ELSE [panic |-> FALSE, slot |-> s.sum % len(b)]

index_mut(b, idx, dbg) == index(b, idx, dbg)

\* ------------------------------------------------------------ iterators
\* $name::new: next = 0, next_back = buf.len().
iter_new_wrong(b, kind) == [kind |-> kind, next |-> 0, next_back |-> len(b) - 1]
iter_new(b, kind) == [kind |-> kind, next |-> 0, next_back |-> len(b)]

\* Iterator::next: the cursors after the call, whether it yields, and the
\* logical index it yields.
iter_next_unguarded(i) ==
  [it |-> [i EXCEPT !.next = i.next + 1], some |-> TRUE, idx |-> i.next]
iter_next_inclusive(i) ==
  IF i.next <= i.next_back
  THEN [it |-> [i EXCEPT !.next = i.next + 1], some |-> TRUE, idx |-> i.next]
  ELSE [it |-> i, some |-> FALSE, idx |-> 0]
iter_next(i) ==
  IF i.next < i.next_back
  THEN [it |-> [i EXCEPT !.next = i.next + 1], some |-> TRUE, idx |-> i.next]
  ELSE [it |-> i, some |-> FALSE, idx |-> 0]

\* DoubleEndedIterator::next_back.
iter_next_back_unguarded(i) ==
  LET nb == IF i.next_back > 0 THEN i.next_back - 1 ELSE 0
  IN  [it |-> [i EXCEPT !.next_back = nb], some |-> TRUE, idx |-> nb]
iter_next_back(i) ==
  IF i.next < i.next_back
  THEN [it |-> [i EXCEPT !.next_back = i.next_back - 1], some |-> TRUE,
        idx |-> i.next_back - 1]
  ELSE [it |-> i, some |-> FALSE, idx |-> 0]

\* Iterator::size_hint: next_back - next, as lower and upper bound.
size_hint_noprogress(i) == i.next_back
size_hint(i) == i.next_back - i.next

\* ---------------------------------------------------------- reference
\* The front-to-back contents, read off the storage without index
\* arithmetic: the part from the front cursor on, then the part before it.
Logical(b) ==
  SubSeq(b.data, b.front + 1, len(b)) \o SubSeq(b.data, 1, b.front)

\* VecDeque::push_front then pop_back, and push_back then pop_front
\* (tests/test.rs, iter_next).  The reference deque `deq` follows the two
\* pushes only; every other operation that writes the buffer restarts the
\* comparison from equal contents, deq' = Logical(buffer after it).
deq_push_front(d, v) == <<v>> \o SubSeq(d, 1, Len(d) - 1)
deq_push_back(d, v) == SubSeq(d, 2, Len(d)) \o <<v>>

Reverse(s) == [k \in 1 .. Len(s) |-> s[Len(s) + 1 - k]]

\* ----------------------------------------------------------------- Init
ValOf(z) == IF z THEN {Default} ELSE Val

\* The three ways to construct a RingBuf.
Ctors == {"new", "from_vec", "from"}

\* Constructor c called with vec (new: with the length of vec).
construct(c, vec) ==
  IF c = "new" THEN new(Len(vec))
  ELSE IF c = "from_vec" THEN from_vec(vec)
  ELSE from_box(vec)

\* `last` records the constructor, the requested length and, for from_vec
\* and from, the sequence that was handed in.
Init ==
  \E c \in Ctors, vec \in Vecs, d \in BOOLEAN, z \in BOOLEAN :
    /\ \A k \in 1 .. Len(vec) : vec[k] \in ValOf(z)
    /\ c = "new" => \A k \in 1 .. Len(vec) : vec[k] = Default
    /\ LET r == construct(c, vec)
       IN  /\ data = r.buf.data
           /\ front = r.buf.front
           /\ panic = r.panic
           /\ deq = r.buf.data
    /\ debug = d
    /\ zst = z
    /\ last = [op |-> c, arg |-> Len(vec), idx |-> 0, ret |-> 0,
               pre |-> [data |-> IF c = "new" THEN << >> ELSE vec,
                        front |-> 0]]
    /\ it = NoIter
    /\ fwd = << >>
    /\ bwd = << >>
    /\ slots = << >>
    /\ call = NoCall
    /\ hist = NoLast
    /\ run = NoRun
    /\ ldata = << >>
    /\ lnext = 0
    /\ llast = NoLast
    /\ lit = NoIter
    /\ lfwd = << >>
    /\ lbwd = << >>

\* The buffer can be used: the program has not panicked and no iterator
\* borrows the buffer.
Free == panic = "none" /\ it.kind = "none"

Op(name, arg, idx, ret) ==
  [op |-> name, arg |-> arg, idx |-> idx, ret |-> ret, pre |-> Buf]

\* -------------------------------------------------------------- actions
PushFront(v) ==
  /\ Free
  /\ IF debug /\ ~(back_idx(Buf) < Len(data))
     THEN /\ panic' = "debug_assert"
          /\ UNCHANGED <<data, front, deq>>
     ELSE /\ data' = push_front(Buf, v).data
          /\ front' = push_front(Buf, v).front
          /\ deq' = deq_push_front(deq, v)
          /\ UNCHANGED panic
  /\ last' = Op("push_front", v, 0, 0)
  /\ UNCHANGED <<debug, zst, it, fwd, bwd, slots, call>>

PushBack(v) ==
  /\ Free
  /\ IF debug /\ ~(front_idx(Buf) < Len(data))
     THEN /\ panic' = "debug_assert"
          /\ UNCHANGED <<data, front, deq>>
     ELSE /\ data' = push_back(Buf, v).data
          /\ front' = push_back(Buf, v).front
          /\ deq' = deq_push_back(deq, v)
          /\ UNCHANGED panic
  /\ last' = Op("push_back", v, 0, 0)
  /\ UNCHANGED <<debug, zst, it, fwd, bwd, slots, call>>

\* buf.len(), buf.front() and buf.back(): ret is what was read, arg the
\* physical slot it came from.
ReadLen ==
  /\ Free
  /\ last' = Op("len", 0, 0, len(Buf))
  /\ UNCHANGED <<data, front, debug, zst, panic, deq, it, fwd, bwd, slots, call>>

Front ==
  /\ Free
  /\ last' = Op("front", front_idx(Buf), 0, front_of(Buf))
  /\ UNCHANGED <<data, front, debug, zst, panic, deq, it, fwd, bwd, slots, call>>

Back ==
  /\ Free
  /\ last' = Op("back", back_idx(Buf), 0, back_of(Buf))
  /\ UNCHANGED <<data, front, debug, zst, panic, deq, it, fwd, bwd, slots, call>>

\* assert_eq!(buf, ring_buf![...]) with the literal listing the buffer's
\* front-to-back contents (tests/test.rs, mutating_iter and
\* front_back_mut): ret is 1 when the two compare equal.
EqLiteral ==
  /\ Free
  /\ last' = Op("eq", 0, 0,
                IF eq(Buf, from_vec(Logical(Buf)).buf) THEN 1 ELSE 0)
  /\ UNCHANGED <<data, front, debug, zst, panic, deq, it, fwd, bwd, slots, call>>

\* *buf.front_mut() = v: ret is the physical slot written.
FrontMut(v) ==
  /\ Free
  /\ data' = front_mut(Buf, v).data
  /\ front' = front_mut(Buf, v).front
  /\ last' = Op("front_mut", v, 0, front_idx(Buf))
  /\ deq' = Logical(front_mut(Buf, v))
  /\ UNCHANGED <<debug, zst, panic, it, fwd, bwd, slots, call>>

\* *buf.back_mut() = v: ret is the physical slot written.
BackMut(v) ==
  /\ Free
  /\ data' = back_mut(Buf, v).data
  /\ front' = back_mut(Buf, v).front
  /\ last' = Op("back_mut", v, 0, back_idx(Buf))
  /\ deq' = Logical(back_mut(Buf, v))
  /\ UNCHANGED <<debug, zst, panic, it, fwd, bwd, slots, call>>

PopFront ==
  /\ Free
  /\ data' = pop_front(Buf).buf.data
  /\ front' = pop_front(Buf).buf.front
  /\ last' = Op("pop_front", 0, 0, pop_front(Buf).ret)
  /\ deq' = Logical(pop_front(Buf).buf)
  /\ UNCHANGED <<debug, zst, panic, it, fwd, bwd, slots, call>>

PopBack ==
  /\ Free
  /\ data' = pop_back(Buf).buf.data
  /\ front' = pop_back(Buf).buf.front
  /\ last' = Op("pop_back", 0, 0, pop_back(Buf).ret)
  /\ deq' = Logical(pop_back(Buf).buf)
  /\ UNCHANGED <<debug, zst, panic, it, fwd, bwd, slots, call>>

MakeContiguous ==
  /\ Free
  /\ data' = make_contiguous(Buf).data
  /\ front' = make_contiguous(Buf).front
  /\ last' = Op("make_contiguous", 0, 0, 0)
  /\ deq' = Logical(make_contiguous(Buf))
  /\ UNCHANGED <<debug, zst, panic, it, fwd, bwd, slots, call>>

\* buf[i]: ret is the element read, arg the physical slot it came from.
Index(i) ==
  /\ Free
  /\ LET r == index(Buf, i, debug)
     IN  IF r.panic
         THEN /\ panic' = "overflow"
              /\ last' = Op("index", 0, i, 0)
         ELSE /\ panic' = panic
              /\ last' = Op("index", r.slot, i, data[r.slot + 1])
  /\ UNCHANGED <<data, front, debug, zst, deq, it, fwd, bwd, slots, call>>

\* buf[i] = v: ret is the physical slot written.
IndexMut(i, v) ==
  /\ Free
  /\ LET r == index_mut(Buf, i, debug)
     IN  IF r.panic
         THEN /\ panic' = "overflow"
              /\ last' = Op("index_mut", v, i, 0)
              /\ UNCHANGED <<data, deq>>
         ELSE /\ panic' = panic
              /\ last' = Op("index_mut", v, i, r.slot)
              /\ data' = [data EXCEPT ![r.slot + 1] = v]
              /\ deq' = Logical([data |-> data', front |-> front])
  /\ UNCHANGED <<front, debug, zst, it, fwd, bwd, slots, call>>

\* What is kept of `last` while an iterator borrows the buffer: whether it
\* was a push; `pre` becomes the buffer as the iterator borrowed it.
Borrowed ==
  [NoLast EXCEPT !.op = IF last.op \in {"push_front", "push_back"}
                        THEN last.op ELSE "other",
                 !.pre = Buf]

\* The caller's closure of iter_mut().for_each(|x| *x += 2)
\* (tests/test.rs, mutating_iter), on the model's elements.
F(x) == (x + 1) % (MaxVal + 1)

\* The storage after the element in `slot` was yielded: the caller of a
\* mutable iterator applies F through the reference it got.
yielded_to(d, kind, slot) ==
  IF kind = "iter_mut" THEN [d EXCEPT ![slot + 1] = F(d[slot + 1])] ELSE d

\* buf.iter()
Iter ==
  /\ Free
  /\ it' = iter_new(Buf, "iter")
  /\ last' = Borrowed
  /\ fwd' = << >> /\ bwd' = << >> /\ slots' = << >> /\ call' = NoCall
  /\ UNCHANGED <<data, front, debug, zst, panic, deq>>

IterMut_noassert ==
  /\ Free
  /\ it' = iter_new(Buf, "iter_mut")
  /\ last' = Borrowed
  /\ fwd' = << >> /\ bwd' = << >> /\ slots' = << >> /\ call' = NoCall
  /\ UNCHANGED <<data, front, debug, zst, deq, panic>>
\* buf.iter_mut(): assert_ne!(size_of::<T>(), 0, ...)
IterMut ==
  /\ Free
  /\ IF zst
     THEN /\ panic' = "zst"
          /\ UNCHANGED it
     ELSE /\ it' = iter_new(Buf, "iter_mut")
          /\ UNCHANGED panic
  /\ last' = Borrowed
  /\ fwd' = << >> /\ bwd' = << >> /\ slots' = << >> /\ call' = NoCall
  /\ UNCHANGED <<data, front, debug, zst, deq>>

Iterating == panic = "none" /\ it.kind \in IterKinds

\* it.next(): the element is fetched with Index::index / IndexMut::index_mut.
\* With a mutable iterator the step includes the caller's write through
\* the reference.
Next_ ==
  /\ Iterating
  /\ LET n == iter_next(it)
         r == index(Buf, n.idx, debug)
     IN  /\ it' = n.it
         /\ call' = [fn |-> "next", some |-> n.some]
         /\ IF n.some
            THEN IF r.panic
                 THEN /\ panic' = "overflow"
                      /\ UNCHANGED <<fwd, slots, data, deq>>
                 ELSE /\ fwd' = Append(fwd, data[r.slot + 1])
                      /\ slots' = Append(slots, r.slot)
                      /\ data' = yielded_to(data, it.kind, r.slot)
                      /\ deq' = IF data' = data THEN deq
                                ELSE Logical([data |-> data', front |-> front])
                      /\ UNCHANGED panic
            ELSE UNCHANGED <<fwd, slots, panic, data, deq>>
  /\ UNCHANGED <<front, debug, zst, last, bwd>>

\* it.next_back()
NextBack ==
  /\ Iterating
  /\ LET n == iter_next_back(it)
         r == index(Buf, n.idx, debug)
     IN  /\ it' = n.it
         /\ call' = [fn |-> "next_back", some |-> n.some]
         /\ IF n.some
            THEN IF r.panic
                 THEN /\ panic' = "overflow"
                      /\ UNCHANGED <<bwd, slots, data, deq>>
                 ELSE /\ bwd' = Append(bwd, data[r.slot + 1])
                      /\ slots' = Append(slots, r.slot)
                      /\ data' = yielded_to(data, it.kind, r.slot)
                      /\ deq' = IF data' = data THEN deq
                                ELSE Logical([data |-> data', front |-> front])
                      /\ UNCHANGED panic
            ELSE UNCHANGED <<bwd, slots, panic, data, deq>>
  /\ UNCHANGED <<front, debug, zst, last, fwd>>

\* The iterator goes out of scope and the borrow ends.
DropIter ==
  /\ Iterating
  /\ it' = NoIter
  /\ fwd' = << >> /\ bwd' = << >> /\ slots' = << >> /\ call' = NoCall
  /\ last' = [NoLast EXCEPT !.op = "drop"]
  /\ UNCHANGED <<data, front, debug, zst, panic, deq>>

\* The program uses the ring.rs RingBuf; the operation before the last one
\* is not tracked.
Rest == UNCHANGED <<hist, run, ldata, lnext, llast, lit, lfwd, lbwd>>

Next ==
  \/ \E v \in ValOf(zst) : PushFront(v) /\ Rest
  \/ \E v \in ValOf(zst) : PushBack(v) /\ Rest
  \/ PopFront /\ Rest
  \/ PopBack /\ Rest
  \/ MakeContiguous /\ Rest
  \/ \E i \in Indices(Len(data)) : Index(i) /\ Rest
  \/ \E i \in Indices(Len(data)), v \in ValOf(zst) : IndexMut(i, v) /\ Rest
  \/ Iter /\ Rest
  \/ IterMut /\ Rest
  \/ Next_ /\ Rest
  \/ NextBack /\ Rest
  \/ DropIter /\ Rest
  \/ ReadLen /\ Rest
  \/ Front /\ Rest
  \/ Back /\ Rest
  \/ \E v \in ValOf(zst) : FrontMut(v) /\ Rest
  \/ \E v \in ValOf(zst) : BackMut(v) /\ Rest
  \/ EqLiteral /\ Rest

Spec == Init /\ [][Next]_vars

\* The same pushes, pops and make_contiguous, with the operation before the
\* last one kept in `hist`.
Tracked ==
  hist' = last /\ UNCHANGED <<run, ldata, lnext, llast, lit, lfwd, lbwd>>

NextSeq ==
  \/ \E v \in ValOf(zst) : PushFront(v) /\ Tracked
  \/ \E v \in ValOf(zst) : PushBack(v) /\ Tracked
  \/ PopFront /\ Tracked
  \/ PopBack /\ Tracked
  \/ MakeContiguous /\ Tracked

SpecSeq == Init /\ [][NextSeq]_vars

\* Runs of pushes at one end (tests/test.rs, front_ops and back_ops).  The
\* count saturates at RunCap, one more than the longest buffer; of the
\* values pushed the last len are kept, in the order they were pushed.
RunCap == MaxLen + 1

Last(sq, k) == IF Len(sq) <= k THEN sq ELSE SubSeq(sq, Len(sq) - k + 1, Len(sq))

Ran(op, v) ==
  /\ run' = IF run.op = op
            THEN [op |-> op,
                  n |-> IF run.n < RunCap THEN run.n + 1 ELSE RunCap,
                  vals |-> Last(Append(run.vals, v), Len(data)),
                  front0 |-> run.front0]
            ELSE [op |-> op, n |-> 1, vals |-> <<v>>, front0 |-> front]
  /\ UNCHANGED <<hist, ldata, lnext, llast, lit, lfwd, lbwd>>

\* Any other operation ends the run.
RunEnds ==
  /\ run' = NoRun
  /\ UNCHANGED <<hist, ldata, lnext, llast, lit, lfwd, lbwd>>

NextRun ==
  \/ \E v \in ValOf(zst) : PushFront(v) /\ Ran("push_front", v)
  \/ \E v \in ValOf(zst) : PushBack(v) /\ Ran("push_back", v)
  \/ PopFront /\ RunEnds
  \/ PopBack /\ RunEnds

SpecRun == Init /\ [][NextRun]_vars

\* ------------------------------------------- RingBuf of lib.rs (`next`)
\* The buffer of lib.rs as a value.
LibBuf == [data |-> ldata, next |-> lnext]

NoLibBuf == [data |-> << >>, next |-> 0]

\* assert!(vec.len() > 0); next: 0.
lib_from_vec(vec) ==
  IF Len(vec) = 0
  THEN [panic |-> "empty", buf |-> NoLibBuf]
  ELSE [panic |-> "none", buf |-> [data |-> vec, next |-> 0]]

\* Vec::resize_with(len, Default::default), then from_vec.
lib_new(n) == lib_from_vec([k \in 1 .. n |-> Default])

lib_len(b) == Len(b.data)

\* if self.next == 0 { self.len() - 1 } else { self.next - 1 }
lib_front_idx_nowrap(b) == IF b.next = 0 THEN 0 ELSE b.next - 1
lib_front_idx(b) == IF b.next = 0 THEN lib_len(b) - 1 ELSE b.next - 1

lib_back_idx(b) == b.next

lib_front(b) == b.data[lib_front_idx(b) + 1]
lib_back(b) == b.data[lib_back_idx(b) + 1]

\* self.data[next] = elem; self.next = (next + 1) % len.
lib_push_front(b, elem) ==
  [data |-> [b.data EXCEPT ![b.next + 1] = elem],
   next |-> (b.next + 1) % lib_len(b)]

\* (self.back_idx() + idx) % self.len(), the addition on usize.
lib_index(b, idx, dbg) ==
  LET s == usize_add(lib_back_idx(b), idx)
  IN  IF s.overflow /\ dbg
      THEN [panic |-> TRUE, slot |-> 0]
      ELSE [panic |-> FALSE, slot |-> s.sum % lib_len(b)]

\* RingBuf::iter of lib.rs: next: self.next, next_back: self.next + len.
lib_iter_zero(b) == [kind |-> "iter", next |-> 0, next_back |-> lib_len(b)]
lib_iter(b) ==
  [kind |-> "iter", next |-> b.next, next_back |-> b.next + lib_len(b)]

\* RingIter::next of lib.rs: yields data[next % len], then next += 1.
lib_iter_next(b, i) ==
  IF i.next < i.next_back
  THEN [some |-> TRUE, slot |-> i.next % lib_len(b),
        it |-> [i EXCEPT !.next = i.next + 1]]
  ELSE [some |-> FALSE, slot |-> 0, it |-> i]

\* RingIter::next_back of lib.rs: next_back -= 1, yields data[next_back % len].
lib_iter_next_back(b, i) ==
  IF i.next < i.next_back
  THEN [some |-> TRUE, slot |-> (i.next_back - 1) % lib_len(b),
        it |-> [i EXCEPT !.next_back = i.next_back - 1]]
  ELSE [some |-> FALSE, slot |-> 0, it |-> i]

\* The elements of a lib.rs buffer from the least to the most recently
\* added: storage read from the cursor on, wrapping at the end.
LibLogical(b) ==
  [k \in 1 .. lib_len(b) |-> b.data[((b.next + k - 1) % lib_len(b)) + 1]]

\* The constructors of lib.rs; ring_buf! expands to from_vec.
LibCtors == {"new", "from_vec"}

\* `llast` records the constructor and the sequence that was handed in.
InitLib ==
  \E c \in LibCtors, vec \in Vecs, d \in BOOLEAN :
    /\ c = "new" => \A k \in 1 .. Len(vec) : vec[k] = Default
    /\ LET r == IF c = "new" THEN lib_new(Len(vec)) ELSE lib_from_vec(vec)
       IN  /\ ldata = r.buf.data
           /\ lnext = r.buf.next
           /\ panic = r.panic
    /\ llast = [op |-> c, arg |-> Len(vec), idx |-> 0, ret |-> 0,
                pre |-> [data |-> vec, next |-> 0]]
    /\ lit = NoIter
    /\ lfwd = << >>
    /\ lbwd = << >>
    /\ debug = d
    /\ data = << >>
    /\ front = 0
    /\ zst = FALSE
    /\ last = NoLast
    /\ deq = << >>
    /\ it = NoIter
    /\ fwd = << >>
    /\ bwd = << >>
    /\ slots = << >>
    /\ call = NoCall
    /\ hist = NoLast
    /\ run = NoRun

LibOp(name, arg, idx, ret) ==
  [op |-> name, arg |-> arg, idx |-> idx, ret |-> ret, pre |-> LibBuf]

\* The lib.rs buffer can be used: no panic and no iterator borrows it.
LibFree == panic = "none" /\ lit.kind = "none"

LibPushFront(v) ==
  /\ LibFree
  /\ LET b == lib_push_front(LibBuf, v)
     IN  /\ ldata' = b.data
         /\ lnext' = b.next
  /\ llast' = LibOp("push_front", v, 0, 0)
  /\ UNCHANGED <<panic, debug, lit, lfwd, lbwd>>
  /\ UNCHANGED ringvars

\* buf.front(): arg is the physical slot read.
LibFront ==
  /\ LibFree
  /\ llast' = LibOp("front", lib_front_idx(LibBuf), 0, lib_front(LibBuf))
  /\ UNCHANGED <<ldata, lnext, panic, debug, lit, lfwd, lbwd>>
  /\ UNCHANGED ringvars

\* buf.back(): arg is the physical slot read.
LibBack ==
  /\ LibFree
  /\ llast' = LibOp("back", lib_back_idx(LibBuf), 0, lib_back(LibBuf))
  /\ UNCHANGED <<ldata, lnext, panic, debug, lit, lfwd, lbwd>>
  /\ UNCHANGED ringvars

\* buf[i]: ret is the element read, arg the physical slot it came from.
LibIndex(i) ==
  /\ LibFree
  /\ LET r == lib_index(LibBuf, i, debug)
     IN  IF r.panic
         THEN /\ panic' = "overflow"
              /\ llast' = LibOp("index", 0, i, 0)
         ELSE /\ panic' = panic
              /\ llast' = LibOp("index", r.slot, i, ldata[r.slot + 1])
  /\ UNCHANGED <<ldata, lnext, debug, lit, lfwd, lbwd>>
  /\ UNCHANGED ringvars

\* buf.iter(): the buffer stays borrowed until the iterator is dropped.
LibIter ==
  /\ LibFree
  /\ lit' = lib_iter(LibBuf)
  /\ lfwd' = << >>
  /\ lbwd' = << >>
  /\ llast' = LibOp("iter", 0, 0, 0)
  /\ UNCHANGED <<ldata, lnext, panic, debug>>
  /\ UNCHANGED ringvars

\* it.next() on the lib.rs RingIter.
LibIterNext ==
  /\ panic = "none"
  /\ lit.kind = "iter"
  /\ LET r == lib_iter_next(LibBuf, lit)
     IN  /\ lit' = r.it
         /\ lfwd' = IF r.some THEN Append(lfwd, ldata[r.slot + 1]) ELSE lfwd
  /\ llast' = LibOp("next", 0, 0, 0)
  /\ UNCHANGED <<ldata, lnext, lbwd, panic, debug>>
  /\ UNCHANGED ringvars

\* it.next_back() on the lib.rs RingIter.
LibIterNextBack ==
  /\ panic = "none"
  /\ lit.kind = "iter"
  /\ LET r == lib_iter_next_back(LibBuf, lit)
     IN  /\ lit' = r.it
         /\ lbwd' = IF r.some THEN Append(lbwd, ldata[r.slot + 1]) ELSE lbwd
  /\ llast' = LibOp("next_back", 0, 0, 0)
  /\ UNCHANGED <<ldata, lnext, lfwd, panic, debug>>
  /\ UNCHANGED ringvars

\* The iterator goes out of scope and the borrow ends.
LibDropIter ==
  /\ panic = "none"
  /\ lit.kind = "iter"
  /\ lit' = NoIter
  /\ lfwd' = << >>
  /\ lbwd' = << >>
  /\ llast' = LibOp("drop", 0, 0, 0)
  /\ UNCHANGED <<ldata, lnext, panic, debug>>
  /\ UNCHANGED ringvars

NextLib ==
  \/ \E v \in Val : LibPushFront(v)
  \/ LibFront
  \/ LibBack
  \/ \E i \in Indices(Len(ldata)) : LibIndex(i)
  \/ LibIter
  \/ LibIterNext
  \/ LibIterNextBack
  \/ LibDropIter

SpecLib == InitLib /\ [][NextLib]_vars

\* ------------------------------------------------------------- helpers
\* buf[i] for an index that does not overflow the cursor addition.
At(b, i) == b.data[index(b, i, FALSE).slot + 1]

\* A buffer exists and the program runs.
Alive == panic = "none" /\ Len(data) > 0

\* The last operation was `name`, it completed, and its pre-state is known.
Did(name) == Alive /\ it.kind = "none" /\ last.op = name /\ len(last.pre) > 0

\* ------------------------------------------------------------------ C1
\* C1: in every state reachable by the constructors and the buffer
\* operations the front cursor satisfies 0 <= front < len, and no step
\* changes the length of the backing storage.
C1_FrontInRange_LenConstant ==
  /\ [](panic # "empty" => front \in 0 .. Len(data) - 1)
  /\ [][Len(data') = Len(data)]_vars

\* A push_back has wrapped the cursor from len - 1 back to 0.
C1_Witness ==
  /\ Did("push_back")
  /\ Len(data) = MaxLen
  /\ last.pre.front = Len(data) - 1
  /\ front = 0

\* ------------------------------------------------------------------ C2
\* C2: push_front(v) on logical sequence s writes v into the physical slot
\* before the front cursor (mod len) and makes it the front: afterwards
\* front() = v = buf[0], buf[i] = s[i-1] for 1 <= i < len, and s[len-1] is
\* evicted, so back() = s[len-2] when len >= 2.
C2_PushFront ==
  Did("push_front") =>
    LET pre == last.pre
        s == Logical(pre)
        n == Len(s)
        v == last.arg
    IN  /\ Len(data) = n
        /\ front = (pre.front + n - 1) % n
        /\ data = [pre.data EXCEPT ![front + 1] = v]
        /\ front_of(Buf) = v
        /\ At(Buf, 0) = v
        /\ \A i \in 1 .. n - 1 : At(Buf, i) = s[i]
        /\ n >= 2 => back_of(Buf) = s[n - 1]

\* A push_front at front cursor 0 (the slot before it is the last one) that
\* evicts a back element different from its neighbour and from v.
C2_Witness ==
  /\ Did("push_front")
  /\ Len(data) = MaxLen
  /\ last.pre.front = 0
  /\ back_of(last.pre) # back_of(Buf)
  /\ back_of(last.pre) # last.arg

\* ------------------------------------------------------------------ C3
\* C3: push_back(v) on logical sequence s overwrites the slot at the front
\* cursor and advances the cursor by one (mod len): afterwards
\* back() = v = buf[len-1], buf[i] = s[i+1] for 0 <= i < len-1, and s[0] is
\* evicted, so front() = s[1] when len >= 2.
C3_PushBack ==
  Did("push_back") =>
    LET pre == last.pre
        s == Logical(pre)
        n == Len(s)
        v == last.arg
    IN  /\ Len(data) = n
        /\ data = [pre.data EXCEPT ![pre.front + 1] = v]
        /\ front = (pre.front + 1) % n
        /\ back_of(Buf) = v
        /\ At(Buf, n - 1) = v
        /\ \A i \in 0 .. n - 2 : At(Buf, i) = s[i + 2]
        /\ n >= 2 => front_of(Buf) = s[2]

\* A push_back at the last physical slot (the cursor wraps to 0) that
\* evicts a front element different from its neighbour and from v.
C3_Witness ==
  /\ Did("push_back")
  /\ Len(data) = MaxLen
  /\ last.pre.front = Len(data) - 1
  /\ front_of(last.pre) # front_of(Buf)
  /\ front_of(last.pre) # last.arg

\* ------------------------------------------------------------------ C4
\* C4: pop_front() on logical sequence s, len >= 2, returns s[0], leaves the
\* default value in that slot and makes the second element the front:
\* front() = s[1], buf[i] = s[i+1] for 0 <= i < len-1,
\* back() = buf[len-1] = default.  The length is unchanged.
C4_PopFront ==
  (Did("pop_front") /\ Len(data) >= 2) =>
    LET pre == last.pre
        s == Logical(pre)
        n == Len(s)
    IN  /\ Len(data) = n
        /\ last.ret = s[1]
        /\ data = [pre.data EXCEPT ![pre.front + 1] = Default]
        /\ front_of(Buf) = s[2]
        /\ \A i \in 0 .. n - 2 : At(Buf, i) = s[i + 2]
        /\ back_of(Buf) = Default
        /\ At(Buf, n - 1) = Default

\* A pop_front that wraps the cursor and removes a non-default element.
C4_Witness ==
  /\ Did("pop_front")
  /\ Len(data) = MaxLen
  /\ last.pre.front = Len(data) - 1
  /\ last.ret # Default
  /\ front_of(Buf) # Default

\* ------------------------------------------------------------------ C5
\* C5: pop_back() on logical sequence s, len >= 2, returns s[len-1], leaves
\* the default value in that slot and makes the second-to-last element the
\* back: back() = s[len-2], buf[i] = s[i-1] for 1 <= i < len,
\* front() = buf[0] = default.  The length is unchanged.
C5_PopBack ==
  (Did("pop_back") /\ Len(data) >= 2) =>
    LET pre == last.pre
        s == Logical(pre)
        n == Len(s)
    IN  /\ Len(data) = n
        /\ last.ret = s[n]
        /\ data = [pre.data EXCEPT ![back_idx(pre) + 1] = Default]
        /\ back_of(Buf) = s[n - 1]
        /\ \A i \in 1 .. n - 1 : At(Buf, i) = s[i]
        /\ front_of(Buf) = Default
        /\ At(Buf, 0) = Default

\* A pop_back at front cursor 0 (the back is the last physical slot) that
\* removes a non-default element.
C5_Witness ==
  /\ Did("pop_back")
  /\ Len(data) = MaxLen
  /\ last.pre.front = 0
  /\ last.ret # Default
  /\ back_of(Buf) # Default

\* ------------------------------------------------------------------ C6
\* C6: RingBuf refines a fixed-size deque.  Run next to a reference
\* sequence on which push_front(v) is "prepend v, drop the last" and
\* push_back(v) is "append v, drop the first", from equal contents:
\* buf[i] is the reference's i-th element for all 0 <= i < n, iter() yields
\* the reference front to back from next() and back to front from
\* next_back(), and the remaining length reported after every step is that
\* of the reference's iterator.
C6_RefinesDeque ==
  Alive =>
    LET n == Len(data)
    IN  /\ Len(deq) = n
        /\ \A i \in 0 .. n - 1 : At(Buf, i) = deq[i + 1]
        /\ it.kind = "iter" =>
             /\ Len(fwd) + Len(bwd) <= n
             /\ fwd = SubSeq(deq, 1, Len(fwd))
             /\ bwd = SubSeq(Reverse(deq), 1, Len(bwd))
             /\ size_hint(it) = Len(deq) - Len(fwd) - Len(bwd)

\* After a push_front that left the front cursor away from slot 0, a full
\* forward iteration over contents that are not all equal.
C6_Witness ==
  /\ Alive
  /\ it.kind = "iter"
  /\ last.op = "push_front"
  /\ Len(data) = MaxLen
  /\ front # 0
  /\ Len(fwd) = Len(data)
  /\ fwd[1] # fwd[2]

\* ------------------------------------------------------------------ C7
\* C7: in every reachable buffer state indexing is front-anchored and
\* wraps: buf[0] is front(), buf[len-1] is back(), and for every index i
\* for which i + len is representable buf[i] and buf[i + len] are the same
\* element.
C7_IndexWraps ==
  Alive =>
    LET n == Len(data)
        r(i) == index(Buf, i, debug)
    IN  /\ ~r(0).panic /\ r(0).slot = front_idx(Buf)
        /\ ~r(n - 1).panic /\ r(n - 1).slot = back_idx(Buf)
        /\ \A i \in Usize :
             i + n <= UsizeMax =>
               /\ ~r(i).panic
               /\ ~r(i + n).panic
               /\ r(i).slot = r(i + n).slot

\* ------------------------------------------------------------------ C8
\* C8: index access is total: for every reachable buffer state and every
\* index i of the full usize range, index(i) and index_mut(i) do not fail
\* and give the element at logical position i mod len.
C8_IndexTotal ==
  /\ Alive =>
       \A i \in Usize :
         /\ ~index(Buf, i, debug).panic
         /\ index(Buf, i, debug).slot = (front + (i % Len(data))) % Len(data)
         /\ ~index_mut(Buf, i, debug).panic
         /\ index_mut(Buf, i, debug).slot = (front + (i % Len(data))) % Len(data)
  /\ (it.kind = "none" /\ last.op \in {"index", "index_mut"}) =>
       /\ panic = "none"
       /\ LET n == len(last.pre)
              slot == IF last.op = "index" THEN last.arg ELSE last.ret
          IN  slot = (last.pre.front + (last.idx % n)) % n

\* ------------------------------------------------------------------ C9
\* C9: for an iterator over a buffer with logical sequence s of length n,
\* under any interleaving of next() and next_back(): the j-th successful
\* next() yields s[j-1], the k-th successful next_back() yields s[n-k],
\* exactly n calls succeed (a call returns None only once n elements were
\* yielded, and never more than n are), and the elements of next() followed
\* by the reverse of those of next_back() are s.
C9_IterOrder ==
  (Iterating /\ Len(data) > 0) =>
    LET s == Logical(last.pre)
        n == Len(s)
    IN  /\ it.kind = "iter" => Logical(Buf) = s
        /\ n = Len(data)
        /\ Len(fwd) + Len(bwd) <= n
        /\ \A j \in 1 .. Len(fwd) : fwd[j] = s[j]
        /\ \A k \in 1 .. Len(bwd) : bwd[k] = s[n + 1 - k]
        /\ (call.fn # "new" /\ ~call.some) => Len(fwd) + Len(bwd) = n
        /\ it.next = it.next_back => Len(fwd) + Len(bwd) = n
        /\ Len(fwd) + Len(bwd) = n => fwd \o Reverse(bwd) = s

\* An exhausted iterator over a rotated buffer with unequal contents that
\* was consumed from both ends and has since returned None.
C9_Witness ==
  /\ Iterating
  /\ Len(data) = MaxLen
  /\ front # 0
  /\ Len(fwd) >= 1
  /\ Len(bwd) >= 1
  /\ Len(fwd) + Len(bwd) = Len(data)
  /\ call.fn = "next"
  /\ ~call.some
  /\ \E i, j \in 1 .. Len(data) : data[i] # data[j]

\* ----------------------------------------------------------------- C10
\* C10: in every iterator state the cursors satisfy
\* 0 <= next <= next_back <= len; a call never decreases next nor increases
\* next_back, and a call that returns None changes neither.
C10_Cursors ==
  /\ [](Iterating => /\ 0 <= it.next
                     /\ it.next <= it.next_back
                     /\ it.next_back <= Len(data))
  /\ [][(Iterating /\ it'.kind = it.kind) =>
          /\ it'.next >= it.next
          /\ it'.next_back <= it.next_back
          /\ ~call'.some => it' = it]_vars

\* Both cursors have moved, they have met, and a further next_back()
\* returned None.
C10_Witness ==
  /\ Iterating
  /\ it.next >= 1
  /\ it.next_back < Len(data)
  /\ it.next = it.next_back
  /\ call.fn = "next_back"
  /\ ~call.some

\* ----------------------------------------------------------------- C11
\* C11: size_hint is exact: a fresh iterator reports len whatever pushes
\* and pops came before; the report is always len minus the number of
\* elements yielded so far; a successful next() or next_back() lowers it by
\* exactly 1; and once it is 0 it stays 0 on further calls.
C11_SizeHintExact ==
  /\ [](Iterating =>
          /\ call.fn = "new" => size_hint(it) = Len(data)
          /\ size_hint(it) = Len(data) - (Len(fwd) + Len(bwd)))
  /\ [][(Iterating /\ it'.kind = it.kind) =>
          /\ call'.some => size_hint(it') = size_hint(it) - 1
          /\ size_hint(it) = 0 => size_hint(it') = 0]_vars

\* An iterator created after a push that moved the cursor, stepped from
\* both ends down to one remaining element.
C11_Witness ==
  /\ Iterating
  /\ last.op \in {"push_front", "push_back"}
  /\ Len(data) = MaxLen
  /\ front # 0
  /\ Len(fwd) >= 1
  /\ Len(bwd) >= 1
  /\ size_hint(it) = 1

\* ----------------------------------------------------------------- C12
\* C12: the iterators are fused: a call returns None only when
\* next = next_back, and from then on every call to next() and next_back()
\* returns None and changes nothing of the iterator.
C12_Fused ==
  /\ []((Iterating /\ call.fn # "new" /\ ~call.some) => it.next = it.next_back)
  /\ [][(Iterating /\ it.next = it.next_back /\ it'.kind = it.kind) =>
          /\ ~call'.some
          /\ it' = it
          /\ fwd' = fwd /\ bwd' = bwd /\ slots' = slots]_vars

\* After next() returned None, a next_back() returned None as well.
C12_Witness ==
  /\ Iterating
  /\ Len(data) = MaxLen
  /\ it.next = it.next_back
  /\ Len(fwd) = Len(data)
  /\ call.fn = "next_back"
  /\ ~call.some

\* ----------------------------------------------------------------- C13
\* C13: over the lifetime of one RingIterMut, under any interleaving of
\* next() and next_back() and for any front cursor, no physical slot is
\* handed out twice.
C13_NoAlias ==
  (panic = "none" /\ it.kind = "iter_mut") =>
    /\ \A i, j \in 1 .. Len(slots) : i # j => slots[i] # slots[j]
    /\ \A i \in 1 .. Len(slots) : slots[i] \in 0 .. Len(data) - 1

\* A mutable iterator over a rotated buffer that handed out every slot,
\* from both ends.
C13_Witness ==
  /\ it.kind = "iter_mut"
  /\ panic = "none"
  /\ Len(data) = MaxLen
  /\ front # 0
  /\ Len(slots) = Len(data)
  /\ Len(fwd) >= 1
  /\ Len(bwd) >= 1

\* ----------------------------------------------------------------- C14
\* C14: zero-length construction is rejected: new(0), from_vec of an empty
\* vector and the conversion from an empty boxed slice panic and produce no
\* buffer, so no RingBuf with len = 0 is reachable; for every len >= 1
\* construction succeeds.
C14_ZeroLengthRejected ==
  /\ last.op \in Ctors =>
       /\ last.arg = 0 => (panic = "empty" /\ data = << >>)
       /\ last.arg >= 1 => (panic = "none" /\ Len(data) = last.arg)
  /\ panic # "empty" => Len(data) >= 1
  /\ panic = "empty" => (last.op \in Ctors /\ last.arg = 0)
  /\ \A c \in Ctors : construct(c, << >>).panic = "empty"

\* new(0) has panicked.
C14_Witness ==
  /\ panic = "empty"
  /\ last.op = "new"
  /\ last.arg = 0
  /\ data = << >>

\* ----------------------------------------------------------------- C16
\* C16: construction keeps the given order with the first element as
\* front: from_vec(v) (and the conversion from a boxed slice) with v
\* non-empty gives front cursor 0, len() = |v|, buf[i] = v[i] for all i,
\* front() = v[0], back() = v[|v|-1]; new(len), len >= 1, is from_vec of
\* len default values: len() = len and every slot is the default.
C16_ConstructionOrder ==
  /\ (last.op \in {"from_vec", "from"} /\ panic = "none") =>
       LET v == last.pre.data
           n == Len(v)
       IN  /\ front = 0
           /\ len(Buf) = n
           /\ \A i \in 0 .. n - 1 : At(Buf, i) = v[i + 1]
           /\ front_of(Buf) = v[1]
           /\ back_of(Buf) = v[n]
  /\ (last.op = "new" /\ panic = "none") =>
       /\ front = 0
       /\ len(Buf) = last.arg
       /\ \A i \in 0 .. last.arg - 1 : At(Buf, i) = Default
       /\ Buf = from_vec([k \in 1 .. last.arg |-> Default]).buf

\* from_vec of a longest vector whose first and last elements differ.
C16_Witness ==
  /\ last.op = "from_vec"
  /\ panic = "none"
  /\ Len(data) = MaxLen
  /\ last.pre.data[1] # last.pre.data[MaxLen]

\* ----------------------------------------------------------------- C15
\* C15: iter_mut() on a buffer of a zero-sized element type always panics
\* (zero sized types), before an iterator exists and without changing the
\* buffer; for other element types iter_mut() always succeeds; iter()
\* succeeds for every element type.
C15_IterMutZst ==
  /\ [](/\ panic = "zst" => (zst /\ it.kind = "none")
        /\ it.kind = "iter_mut" => ~zst
        /\ (Free /\ Alive) =>
             /\ ENABLED (Iter /\ it'.kind = "iter" /\ panic' = "none")
             /\ ~ENABLED (Iter /\ panic' # "none")
             /\ zst => /\ ENABLED (IterMut /\ panic' = "zst")
                       /\ ~ENABLED (IterMut /\ panic' # "zst")
             /\ ~zst => /\ ENABLED (IterMut /\ it'.kind = "iter_mut")
                        /\ ~ENABLED (IterMut /\ panic' # "none"))
  /\ [][(panic = "none" /\ panic' = "zst") =>
          /\ it' = it
          /\ data' = data
          /\ front' = front]_vars

\* iter_mut() has panicked on a zero-sized element type, on a buffer whose
\* cursor had been moved.
C15_Witness ==
  /\ panic = "zst"
  /\ zst
  /\ it.kind = "none"
  /\ Len(data) = MaxLen
  /\ front # 0

\* ----------------------------------------------------------------- C17
\* C17: make_contiguous() in any reachable state sets the front cursor to
\* 0 and rotates the storage so that physical slot i holds the element
\* that was at logical index i: the returned slice is the logical
\* front-to-back sequence, the logical sequence (buf[i], front(), back())
\* is unchanged, and a second call changes nothing.  into_boxed_slice()
\* returns the logical sequence, front first.
C17_MakeContiguous ==
  /\ Did("make_contiguous") =>
       LET pre == last.pre
           n == len(pre)
       IN  /\ front = 0
           /\ Len(data) = n
           /\ \A i \in 0 .. n - 1 : data[i + 1] = At(pre, i)
           /\ data = Logical(pre)
           /\ \A i \in 0 .. n - 1 : At(Buf, i) = At(pre, i)
           /\ front_of(Buf) = front_of(pre)
           /\ back_of(Buf) = back_of(pre)
           /\ make_contiguous(Buf) = Buf
  /\ Alive =>
       /\ into_boxed_slice(Buf) = Logical(Buf)
       /\ into_boxed_slice(Buf)[1] = front_of(Buf)
       /\ into_boxed_slice(Buf)[Len(data)] = back_of(Buf)

\* make_contiguous() on a rotated buffer: the storage was really moved.
C17_Witness ==
  /\ Did("make_contiguous")
  /\ Len(data) = MaxLen
  /\ last.pre.front # 0
  /\ data # last.pre.data

\* ----------------------------------------------------------------- C18
\* C18: round trip: in any reachable state and for any v, push_front(v)
\* immediately followed by pop_front() returns v, restores the front cursor
\* to its value before the push, and leaves every physical slot other than
\* the one the push overwrote (the former back slot) as it was before the
\* push; the overwritten slot holds the default value.
C18_PushPopFront ==
  (Did("pop_front") /\ hist.op = "push_front") =>
    LET p0 == hist.pre
        v == hist.arg
        w == back_idx(p0)
    IN  /\ last.pre = push_front(p0, v)
        /\ last.ret = v
        /\ front = p0.front
        /\ Len(data) = len(p0)
        /\ \A k \in 0 .. len(p0) - 1 : k # w => data[k + 1] = p0.data[k + 1]
        /\ data[w + 1] = Default

\* A push_front of a non-default v over a non-default back element at
\* cursor 0, then the pop_front.
C18_Witness ==
  /\ Did("pop_front")
  /\ hist.op = "push_front"
  /\ Len(data) = MaxLen
  /\ hist.pre.front = 0
  /\ hist.arg # Default
  /\ back_of(hist.pre) # Default

\* ----------------------------------------------------------------- C19
\* C19: mutation through the mutable iterator is observed afterwards and
\* reaches every element exactly once: applying F to every element yielded
\* by an iter_mut() traversal, in any mix of forward and backward steps, of
\* a buffer with logical sequence s leaves the front cursor unchanged and
\* gives buf[i] = F(s[i]) for every element yielded so far (all of them
\* after a full traversal) and buf[i] = s[i] for the others.
C19_IterMutWrites ==
  (panic = "none" /\ it.kind = "iter_mut") =>
    LET s == Logical(last.pre)
        n == Len(s)
        done(i) == i < Len(fwd) \/ i >= n - Len(bwd)
    IN  /\ front = last.pre.front
        /\ Len(data) = n
        /\ Len(fwd) + Len(bwd) <= n
        /\ \A i \in 0 .. n - 1 :
             /\ At(Buf, i) = IF done(i) THEN F(s[i + 1]) ELSE s[i + 1]
             /\ Logical(Buf)[i + 1] = At(Buf, i)
        /\ Len(fwd) + Len(bwd) = n =>
             Logical(Buf) = [i \in 1 .. n |-> F(s[i])]

\* A full traversal from both ends of a rotated buffer whose elements are
\* not all equal.
C19_Witness ==
  /\ panic = "none"
  /\ it.kind = "iter_mut"
  /\ Len(data) = MaxLen
  /\ front # 0
  /\ Len(fwd) >= 1
  /\ Len(bwd) >= 1
  /\ Len(fwd) + Len(bwd) = Len(data)
  /\ \E i, j \in 1 .. Len(data) : data[i] # data[j]

\* ----------------------------------------------------------------- C20
\* C20: in the lib.rs variant a buffer built by from_vec / ring_buf! (or
\* new) has the first value handed in as its logical back and the last as
\* its logical front, with back_idx() = 0 and front_idx() = len - 1; and in
\* every state reached by push_front back_idx() = next, next < len and
\* front_idx() = (back_idx() + len - 1) mod len, which are the slots that
\* front() and back() read.
C20_LibFrontBack ==
  (panic = "none" /\ Len(ldata) > 0) =>
    LET n == lib_len(LibBuf) IN
    /\ llast.op \in LibCtors =>
         /\ ldata = llast.pre.data
         /\ lib_back_idx(LibBuf) = 0
         /\ lib_front_idx(LibBuf) = n - 1
         /\ lib_back(LibBuf) = llast.pre.data[1]
         /\ lib_front(LibBuf) = llast.pre.data[n]
    /\ lib_back_idx(LibBuf) = lnext
    /\ lnext \in 0 .. n - 1
    /\ lib_front_idx(LibBuf) = (lib_back_idx(LibBuf) + n - 1) % n
    /\ llast.op = "front" =>
         /\ llast.arg = (lnext + n - 1) % n
         /\ llast.ret = ldata[llast.arg + 1]
    /\ llast.op = "back" =>
         /\ llast.arg = lnext
         /\ llast.ret = ldata[lnext + 1]

\* front() read after push_front wrapped the cursor back to slot 0.
C20_Witness ==
  /\ panic = "none"
  /\ Len(ldata) = MaxLen
  /\ llast.op = "front"
  /\ lnext = 0
  /\ llast.arg = MaxLen - 1
  /\ llast.ret # ldata[1]

\* ----------------------------------------------------------------- C21
\* C21: in the lib.rs variant indexing and iteration start at the least
\* recently added element: buf[0] is back() and buf[len-1] is front();
\* push_front(v) on logical sequence s gives buf[len-1] = v = front() and
\* buf[i] = s[i+1] for 0 <= i < len-1; and an iterator, created with
\* next = cursor and next_back = cursor + len, yields buf[0], buf[1], ...
\* from the front of the iteration and buf[len-1], buf[len-2], ... from
\* its back, never more than len elements in all.
C21_LibOldestFirst ==
  (panic = "none" /\ Len(ldata) > 0) =>
    LET n == lib_len(LibBuf)
        at(b, i) == b.data[lib_index(b, i, FALSE).slot + 1]
    IN  /\ at(LibBuf, 0) = lib_back(LibBuf)
        /\ at(LibBuf, n - 1) = lib_front(LibBuf)
        /\ \A i \in 0 .. n - 1 : at(LibBuf, i) = LibLogical(LibBuf)[i + 1]
        /\ llast.op = "push_front" =>
             LET s == LibLogical(llast.pre)
             IN  /\ at(LibBuf, n - 1) = llast.arg
                 /\ lib_front(LibBuf) = llast.arg
                 /\ \A i \in 0 .. n - 2 : at(LibBuf, i) = s[i + 2]
        /\ (llast.op = "index" /\ llast.idx < n) =>
             llast.ret = LibLogical(LibBuf)[llast.idx + 1]
        /\ llast.op = "iter" =>
             /\ lit.next = lnext
             /\ lit.next_back = lnext + n
        /\ lit.kind = "iter" =>
             /\ Len(lfwd) + Len(lbwd) <= n
             /\ lit.next = lnext + Len(lfwd)
             /\ lit.next_back = lnext + n - Len(lbwd)
             /\ \A k \in 1 .. Len(lfwd) : lfwd[k] = at(LibBuf, k - 1)
             /\ \A k \in 1 .. Len(lbwd) : lbwd[k] = at(LibBuf, n - k)

\* A full forward traversal of a buffer whose cursor is not at slot 0 and
\* whose oldest and newest elements differ.
C21_Witness ==
  /\ panic = "none"
  /\ Len(ldata) = MaxLen
  /\ lnext # 0
  /\ lit.kind = "iter"
  /\ Len(lfwd) = MaxLen
  /\ lfwd[1] # lfwd[MaxLen]

\* ----------------------------------------------------------------- C22
\* C22: a write through a mutable accessor changes exactly one element:
\* front_mut() only logical index 0, back_mut() only logical index len-1,
\* index_mut(i) only logical index i mod len, with the front cursor, the
\* length and every other element unchanged; and len(), front(), back(),
\* index(i) and iter() leave the buffer unchanged.
C22_Frame ==
  LET s == Logical(last.pre)
      n == len(last.pre)
  IN  /\ Did("front_mut") =>
           /\ front = last.pre.front
           /\ Logical(Buf) = [s EXCEPT ![1] = last.arg]
      /\ Did("back_mut") =>
           /\ front = last.pre.front
           /\ Logical(Buf) = [s EXCEPT ![n] = last.arg]
      /\ Did("index_mut") =>
           /\ front = last.pre.front
           /\ Logical(Buf) = [s EXCEPT ![(last.idx % n) + 1] = last.arg]
      /\ (Did("len") \/ Did("front") \/ Did("back") \/ Did("index")) =>
           Buf = last.pre
      /\ (Alive /\ it.kind = "iter") => Buf = last.pre

\* ----------------------------------------------------------------- C23
\* C23: a push at one end evicts what was just pushed at the other end:
\* push_front(a) then push_back(b) on logical sequence s leaves the front
\* cursor where it was and gives s with only its last element replaced by
\* b; push_back(b) then push_front(a) gives s with only its first element
\* replaced by a.  So the two orders differ, except when a and b are the
\* values already at the front and at the back (for length 1: when a = b).
C23_PushEvicts ==
  (Alive /\ it.kind = "none") =>
    /\ (last.op = "push_back" /\ hist.op = "push_front") =>
         LET s == Logical(hist.pre)
         IN  /\ last.pre = push_front(hist.pre, hist.arg)
             /\ front = hist.pre.front
             /\ Logical(Buf) = [s EXCEPT ![Len(s)] = last.arg]
    /\ (last.op = "push_front" /\ hist.op = "push_back") =>
         LET s == Logical(hist.pre)
         IN  /\ last.pre = push_back(hist.pre, hist.arg)
             /\ front = hist.pre.front
             /\ Logical(Buf) = [s EXCEPT ![1] = last.arg]
    /\ \A a, b \in Val :
         LET s == Logical(Buf)
             fb == push_back(push_front(Buf, a), b)
             bf == push_front(push_back(Buf, b), a)
         IN  (fb = bf) <=> IF Len(s) = 1 THEN a = b
                           ELSE a = s[1] /\ b = s[Len(s)]

\* push_front(a) then push_back(b) on a rotated buffer of full length, a
\* different from the front element, b from the back element and from a.
C23_Witness ==
  /\ Alive
  /\ last.op = "push_back"
  /\ hist.op = "push_front"
  /\ Len(data) = MaxLen
  /\ hist.pre.front # 0
  /\ hist.arg # front_of(hist.pre)
  /\ last.arg # back_of(hist.pre)
  /\ last.arg # hist.arg

\* ----------------------------------------------------------------- C24
\* C24: for a buffer of length 1 the front cursor is always 0 and front(),
\* back() and buf[i] for every i of the usize range are the single slot;
\* push_front(v) and push_back(v) both give front() = back() = v;
\* pop_front() and pop_back() both return the sole element and leave
\* front() = back() = default; an iterator yields that one element from
\* whichever end is asked first and is then exhausted in both directions.
C24_LengthOne ==
  (Alive /\ Len(data) = 1) =>
    /\ front = 0
    /\ front_idx(Buf) = 0
    /\ back_idx(Buf) = 0
    /\ \A i \in Usize :
         /\ ~index(Buf, i, debug).panic
         /\ index(Buf, i, debug).slot = 0
    /\ (Did("front") \/ Did("back") \/ Did("index")) =>
         /\ last.arg = 0
         /\ last.ret = data[1]
    /\ (Did("push_front") \/ Did("push_back")) =>
         /\ front_of(Buf) = last.arg
         /\ back_of(Buf) = last.arg
    /\ (Did("pop_front") \/ Did("pop_back")) =>
         /\ last.ret = last.pre.data[1]
         /\ front_of(Buf) = Default
         /\ back_of(Buf) = Default
    /\ Iterating =>
         /\ Len(fwd) + Len(bwd) <= 1
         /\ \A k \in 1 .. Len(fwd) : fwd[k] = last.pre.data[1]
         /\ \A k \in 1 .. Len(bwd) : bwd[k] = last.pre.data[1]
         /\ \A k \in 1 .. Len(slots) : slots[k] = 0
         /\ Len(fwd) + Len(bwd) = 0 =>
              /\ iter_next(it).some /\ iter_next(it).idx = 0
              /\ iter_next_back(it).some /\ iter_next_back(it).idx = 0
         /\ Len(fwd) + Len(bwd) = 1 =>
              /\ ~iter_next(it).some
              /\ ~iter_next_back(it).some
         /\ call.some => Len(fwd) + Len(bwd) = 1

\* The sole element, not the default, was yielded by next_back() and a
\* following next() returned None.
C24_Witness ==
  /\ Alive
  /\ Len(data) = 1
  /\ Iterating
  /\ Len(bwd) = 1
  /\ bwd[1] # Default
  /\ call.fn = "next"
  /\ ~call.some

\* ----------------------------------------------------------------- C25
\* C25: a pop followed by a push of the popped value at the same end is the
\* identity on the whole buffer state: after x = pop_front() and then
\* push_front(x) every physical slot and the front cursor are as before
\* the pop, and likewise for x = pop_back() and then push_back(x).
C25_PopPushIdentity ==
  (Alive /\ it.kind = "none") =>
    /\ (hist.op = "pop_front" /\ last.op = "push_front"
          /\ last.arg = hist.ret) =>
         /\ last.pre = pop_front(hist.pre).buf
         /\ hist.ret = pop_front(hist.pre).ret
         /\ data = hist.pre.data
         /\ front = hist.pre.front
    /\ (hist.op = "pop_back" /\ last.op = "push_back"
          /\ last.arg = hist.ret) =>
         /\ last.pre = pop_back(hist.pre).buf
         /\ hist.ret = pop_back(hist.pre).ret
         /\ data = hist.pre.data
         /\ front = hist.pre.front

\* pop_back() of a value that is not the default, from a rotated buffer of
\* full length, then push_back of that value.
C25_Witness ==
  /\ Alive
  /\ hist.op = "pop_back"
  /\ last.op = "push_back"
  /\ last.arg = hist.ret
  /\ hist.ret # Default
  /\ Len(data) = MaxLen
  /\ hist.pre.front # 0
  /\ last.pre # hist.pre

\* ----------------------------------------------------------------- C26
\* C26: sliding window: after k >= len consecutive push_back calls, from
\* any state, the front-to-back sequence is the last len pushed values in
\* the order they were pushed; after k >= len consecutive push_front calls
\* it is the last len pushed values in reverse order; and after exactly
\* len pushes at the same end the front cursor is back where it started.
C26_SlidingWindow ==
  (Alive /\ run.n >= Len(data)) =>
    /\ Len(run.vals) = Len(data)
    /\ run.op = "push_back" => Logical(Buf) = run.vals
    /\ run.op = "push_front" => Logical(Buf) = Reverse(run.vals)
    /\ run.n = Len(data) => front = run.front0

\* More than len push_front calls on a buffer of full length whose cursor
\* did not start at slot 0, the values pushed not all equal.
C26_Witness ==
  /\ Alive
  /\ Len(data) = MaxLen
  /\ run.op = "push_front"
  /\ run.n = RunCap
  /\ run.front0 # 0
  /\ \E i, j \in 1 .. Len(run.vals) : run.vals[i] # run.vals[j]

\* ----------------------------------------------------------------- C27
\* The buffers of element type T a program can hold: any storage, the
\* cursor at any slot (from_vec of the storage, then push_back of the front
\* element moves the cursor by one and keeps the storage).
Bufs(z) ==
  UNION { { [data |-> d, front |-> f] : f \in 0 .. Len(d) - 1 } :
          d \in { v \in Vecs : \A k \in 1 .. Len(v) : v[k] \in ValOf(z) } }

\* C27: equality is representation-based: two buffers compare equal
\* exactly when their storage is equal element by element in physical
\* order and their front cursors are equal.  Hence a == b implies
\* a[i] == b[i] for every i of the usize range, and two buffers with the
\* same logical sequence compare equal whenever both have front cursor 0
\* (after make_contiguous on both, or compared with a literal while the
\* cursor is still 0).
C27_Equality ==
  Alive =>
    /\ \A other \in Bufs(zst) :
         /\ eq(Buf, other) <=>
              /\ len(Buf) = len(other)
              /\ \A k \in 1 .. len(Buf) : data[k] = other.data[k]
              /\ front = other.front
         /\ eq(Buf, other) =>
              \A i \in Usize :
                /\ ~index(Buf, i, debug).panic
                /\ ~index(other, i, debug).panic
                /\ data[index(Buf, i, debug).slot + 1]
                     = other.data[index(other, i, debug).slot + 1]
         /\ (Logical(Buf) = Logical(other) /\ front = 0 /\ other.front = 0) =>
              eq(Buf, other)
         /\ Logical(Buf) = Logical(other) =>
              eq(make_contiguous(Buf), make_contiguous(other))
    /\ Did("eq") => (last.ret = 1 <=> front = 0)
    /\ (Did("make_contiguous") \/ last.op \in Ctors) =>
         eq(Buf, from_vec(Logical(Buf)).buf)

====
